---------------------------- MODULE Spec2Model ----------------------------
(***************************************************************************)
(* A model of smolcc's LS tool (src/smolcc/tools/ls_tool.py): LSTool.forward *)
(* with its capped breadth-first scan (_list_directory), the skip          *)
(* predicate (_should_skip), the tree construction (_create_file_tree) and *)
(* the rendering (_print_tree), on a POSIX host (os.path.sep = "/").       *)
(*                                                                         *)
(* A Python string is a sequence of one-character strings, so that the     *)
(* string operations of the code (comparison by codepoint, split, rstrip,  *)
(* substring search, glob matching) are computed character by character.   *)
(* A multi-line output is the sequence of its lines (each line stands for  *)
(* the line followed by "\n").                                             *)
(***************************************************************************)
EXTENDS Naturals, Sequences, FiniteSets, TLC

(***************************************************************************)
(* Bounds of the model.                                                    *)
(***************************************************************************)
\* The file cap of the scan, scaled down from the program's 1000 so that
\* small directory trees reach it.
MAX_FILES == 2
\* The largest number of entries (files and directories) below the top
\* directory of the modelled filesystem.
MaxEntries == 4
\* The number of invocations of forward in one behaviour.
MaxCalls == 2

(***************************************************************************)
(* Characters and strings.                                                 *)
(***************************************************************************)
\* The characters the model uses, in ascending codepoint order.
Alphabet ==
    << " ", "*", "-", ".", "/", "?", "_",
       "a", "b", "c", "e", "g", "h", "m", "p", "r", "y" >>

\* The rank of a character: order-isomorphic to Python's ord on Alphabet.
Ord(c) == CHOOSE i \in 1..Len(Alphabet) : Alphabet[i] = c

\* Python's s < t on strings: the first differing character decides, a proper
\* prefix is smaller.
RECURSIVE StrLess(_, _)
StrLess(s, t) ==
    IF t = << >> THEN FALSE
    ELSE IF s = << >> THEN TRUE
    ELSE IF Head(s) = Head(t) THEN StrLess(Tail(s), Tail(t))
    ELSE Ord(Head(s)) < Ord(Head(t))

\* s.startswith(p) and s.endswith(p)
StartsWith(s, p) == Len(p) <= Len(s) /\ SubSeq(s, 1, Len(p)) = p
EndsWith(s, p) == Len(p) <= Len(s) /\ SubSeq(s, Len(s) - Len(p) + 1, Len(s)) = p

\* sub in s
Contains(sub, s) ==
    \E i \in 1..(Len(s) + 1) :
        i + Len(sub) - 1 <= Len(s) /\ SubSeq(s, i, i + Len(sub) - 1) = sub

\* s.rstrip(c)
RECURSIVE RStrip(_, _)
RStrip(s, c) ==
    IF s # << >> /\ s[Len(s)] = c THEN RStrip(SubSeq(s, 1, Len(s) - 1), c) ELSE s

\* s.split(c): the pieces between the occurrences of c, empty pieces kept.
RECURSIVE Split(_, _)
Split(s, c) ==
    IF \A i \in 1..Len(s) : s[i] # c THEN << s >>
    ELSE LET i == CHOOSE k \in 1..Len(s) : s[k] = c /\ \A j \in 1..(k - 1) : s[j] # c
         IN << SubSeq(s, 1, i - 1) >> \o Split(SubSeq(s, i + 1, Len(s)), c)

\* c.join(parts)
RECURSIVE JoinWith(_, _)
JoinWith(parts, c) ==
    IF parts = << >> THEN << >>
    ELSE IF Len(parts) = 1 THEN parts[1]
    ELSE parts[1] \o << c >> \o JoinWith(Tail(parts), c)

\* The path segments that count: the empty ones and "." are dropped.
RECURSIVE NonEmptyParts(_)
NonEmptyParts(parts) ==
    IF parts = << >> THEN << >>
    ELSE IF Head(parts) = << >> \/ Head(parts) = << "." >>
         THEN NonEmptyParts(Tail(parts))
         ELSE << Head(parts) >> \o NonEmptyParts(Tail(parts))

\* list.sort() on strings: insertion into the sorted rest.
RECURSIVE SortedInsert(_, _)
SortedInsert(x, s) ==
    IF s = << >> THEN << x >>
    ELSE IF StrLess(Head(s), x) THEN << Head(s) >> \o SortedInsert(x, Tail(s))
    ELSE << x >> \o s

RECURSIVE SortStrings(_)
SortStrings(s) ==
    IF s = << >> THEN << >> ELSE SortedInsert(Head(s), SortStrings(Tail(s)))

\* The orders in which a set can be enumerated.
RECURSIVE Orders(_)
Orders(S) ==
    IF S = {} THEN { << >> }
    ELSE UNION { { << x >> \o o : o \in Orders(S \ {x}) } : x \in S }

Range(s) == { s[i] : i \in 1..Len(s) }

(***************************************************************************)
(* os.path on POSIX.                                                       *)
(***************************************************************************)
\* os.path.isabs
IsAbs(p) == p # << >> /\ p[1] = "/"

\* os.path.join(a, b) for a relative b
PathJoin(a, b) ==
    IF a = << >> \/ EndsWith(a, << "/" >>) THEN a \o b ELSE a \o << "/" >> \o b

\* os.path.basename: what follows the last separator.
Basename(p) ==
    LET parts == Split(p, "/") IN parts[Len(parts)]

\* os.path.dirname: what precedes the last separator, without trailing
\* separators unless it is the root.
Dirname(p) ==
    LET parts == Split(p, "/")
        head == JoinWith(SubSeq(parts, 1, Len(parts) - 1), "/")
    IN IF Len(parts) = 1 THEN << >>
       ELSE IF RStrip(head, "/") = << >> THEN << "/" >>
       ELSE RStrip(head, "/")

\* The segments of a normalized path: empty and "." segments dropped, ".."
\* taking back the segment before it.
RECURSIVE Resolve(_, _)
Resolve(parts, acc) ==
    IF parts = << >> THEN acc
    ELSE IF Head(parts) = << ".", "." >>
         THEN Resolve(Tail(parts),
                      IF acc = << >> THEN acc ELSE SubSeq(acc, 1, Len(acc) - 1))
         ELSE Resolve(Tail(parts), Append(acc, Head(parts)))

Segments(p) == Resolve(NonEmptyParts(Split(p, "/")), << >>)

\* The working directory of the process.
Cwd == << "/" >>

\* os.path.abspath: the path joined to the working directory and normalized.
AbsPath(p) ==
    << "/" >> \o JoinWith(Segments(IF IsAbs(p) THEN p ELSE PathJoin(Cwd, p)), "/")

\* os.path.relpath(path, start): ".." for each segment of start after the
\* common prefix, then the rest of path; "." when nothing is left.
RelPath(p, start) ==
    LET ps == Segments(AbsPath(p))
        ss == Segments(AbsPath(start))
        m  == IF Len(ps) < Len(ss) THEN Len(ps) ELSE Len(ss)
        common == CHOOSE k \in 0..m :
                     /\ SubSeq(ps, 1, k) = SubSeq(ss, 1, k)
                     /\ (k = m \/ ps[k + 1] # ss[k + 1])
        ups  == [i \in 1..(Len(ss) - common) |-> << ".", "." >>]
        rest == ups \o SubSeq(ps, common + 1, Len(ps))
    IN IF rest = << >> THEN << "." >> ELSE JoinWith(rest, "/")

\* fnmatch.fnmatch(name, pat) on POSIX (normcase is the identity): "*" matches
\* any run of characters, separators included, "?" any one character, any
\* other character itself.  The patterns of the model hold no "[".
RECURSIVE FnMatch(_, _)
FnMatch(name, pat) ==
    IF pat = << >> THEN name = << >>
    ELSE IF Head(pat) = "*"
         THEN FnMatch(name, Tail(pat))
              \/ (name # << >> /\ FnMatch(Tail(name), pat))
    ELSE IF Head(pat) = "?"
         THEN name # << >> /\ FnMatch(Tail(name), Tail(pat))
    ELSE name # << >> /\ Head(name) = Head(pat) /\ FnMatch(Tail(name), Tail(pat))


(***************************************************************************)
(* The filesystem: a top directory /r holding at most MaxEntries entries,  *)
(* at most two levels deep.  The names cover the cases of the skip         *)
(* predicate and of the ordering: a hidden name, the bytecode-cache name,  *)
(* and a name ("a-b") that continues another ("a") with a character below  *)
(* the separator.                                                          *)
(***************************************************************************)
TopDir == << "/", "r" >>

HiddenName == << ".", "g" >>
PycacheName == << "_", "_", "p", "y", "c", "a", "c", "h", "e", "_", "_" >>

TopNames == { << "a" >>, << "a", "-", "b" >>, << "b" >>, HiddenName, PycacheName }
SubNames == { << "b" >> }

TopPaths == { PathJoin(TopDir, n) : n \in TopNames }
Universe == TopPaths \cup { PathJoin(p, n) : p \in TopPaths, n \in SubNames }

\* A second set of names, for the bytecode-cache rule: a name that ends with
\* the bytecode-cache name without being it.
MyPycacheName == << "m", "y" >> \o PycacheName
SegmentNames == { << "a" >>, HiddenName, PycacheName, MyPycacheName }
SegmentPaths == { PathJoin(TopDir, n) : n \in SegmentNames }
SegmentUniverse ==
    SegmentPaths \cup { PathJoin(p, n) : p \in SegmentPaths, n \in SubNames }

\* The trees of at most n entries taken from the paths U: an entry is a file
\* or a directory, and its parent is a directory of the tree.
RECURSIVE TreesOver(_, _)
TreesOver(U, n) ==
    IF n = 0 THEN { [dirs |-> { TopDir }, files |-> {}] }
    ELSE LET T == TreesOver(U, n - 1)
             room == { tp \in T \X U :
                          /\ tp[2] \notin tp[1].dirs \cup tp[1].files
                          /\ Dirname(tp[2]) \in tp[1].dirs }
         IN T \cup { [dirs |-> tp[1].dirs \cup { tp[2] }, files |-> tp[1].files] :
                       tp \in room }
              \cup { [dirs |-> tp[1].dirs, files |-> tp[1].files \cup { tp[2] }] :
                       tp \in room }

TreesUpTo(n) == TreesOver(Universe, n)

\* What os.listdir does on a directory: it answers, or it raises.  The two
\* last errors are those of a directory that is removed, or replaced by a
\* file, between the os.path.isdir test and the os.listdir call.
ListErrors == { "PermissionError", "FileNotFoundError", "NotADirectoryError" }
\* except (PermissionError, FileNotFoundError)
CaughtErrors == { "PermissionError", "FileNotFoundError" }
NoFault == [dir |-> << >>, err |-> "none"]

\* The glob patterns of the ignore lists, and the ignore lists.
Patterns == { << "*", "b" >>, << "/", "r", "/", "a" >> }
IgnoreLists ==
    { << >> } \cup { << p >> : p \in Patterns }
              \cup { << << "*", "b" >>, << "/", "r", "/", "a" >> >> }

\* The path arguments: the top directory (also given relative to the working
\* directory) and each name below it, existing or not.
PathArgs == { TopDir, << "r" >> } \cup TopPaths

\* The path arguments of the second filesystem: the top directory, also
\* written with a final "." segment, each name below it, and a directory
\* inside the bytecode-cache directory.
DotPath == PathJoin(TopDir, << "." >>)
RootArgs ==
    { TopDir, DotPath, PathJoin(PathJoin(TopDir, PycacheName), << "b" >>) }
        \cup SegmentPaths

VARIABLES
    dirs,             \* the paths that are directories
    files,            \* the paths that are files
    fault,            \* the directory os.listdir has failed on, and how
    pc,               \* "idle", "scan" (in the loop), "done", "raised"
    calls,            \* the number of invocations of forward so far
    initial_path,     \* forward's path, resolved
    ignore_patterns,  \* forward's ignore list
    queue,            \* _list_directory's queue
    results,          \* _list_directory's results
    file_count,       \* _list_directory's file counter
    listed,           \* the directories os.listdir was called on, in this call
    all_paths,        \* forward's all_paths: what _list_directory returned
    tree,             \* forward's tree: what _create_file_tree returned
    result,           \* what forward returned
    prev              \* what the invocation before this one returned

vars == << dirs, files, fault, pc, calls, initial_path, ignore_patterns, queue,
           results, file_count, listed, all_paths, tree, result, prev >>

\* The entry a path leads to: the system resolves its "." segments.
Lookup(p) == AbsPath(p)

\* os.path.exists and os.path.isdir
Exists(p) == Lookup(p) \in dirs \cup files
IsDir(p) == Lookup(p) \in dirs

\* The names os.listdir(p) returns, as a set: it returns them in any order.
ListDirNames(p) ==
    LET d == Lookup(p)
    IN { Basename(q) : q \in { e \in dirs \cup files : Dirname(e) = d } }

(***************************************************************************)
(* _should_skip                                                            *)
(***************************************************************************)
\* basename.startswith('.') and basename != '.'
IsHidden(basename) == StartsWith(basename, << "." >>) /\ basename # << "." >>

\* basename == '__pycache__' or '__pycache__/' in path
IsPycache(basename, path) ==
    basename = PycacheName \/ Contains(PycacheName \o << "/" >>, path)

\* A variant of MatchesIgnore that matches the base name, not the path.
MatchesIgnoreByName(path, pats) ==
    \E i \in 1..Len(pats) : FnMatch(Basename(RStrip(path, "/")), pats[i])

\* any(fnmatch.fnmatch(path, pattern) for pattern in ignore_patterns)
MatchesIgnore(path, pats) == \E i \in 1..Len(pats) : FnMatch(path, pats[i])

\* A variant of ShouldSkip that lets the root of the call through.
ShouldSkipRootExempt(path, pats) ==
    LET basename == Basename(RStrip(path, "/"))
    IN /\ path # initial_path
       /\ (IsHidden(basename) \/ IsPycache(basename, path)
              \/ MatchesIgnore(path, pats))

\* A variant of ShouldSkip without the hidden-name rule.
ShouldSkipHiddenKept(path, pats) ==
    LET basename == Basename(RStrip(path, "/"))
    IN IsPycache(basename, path) \/ MatchesIgnore(path, pats)

ShouldSkip(path, pats) ==
    LET basename == Basename(RStrip(path, "/"))
    IN IsHidden(basename) \/ IsPycache(basename, path) \/ MatchesIgnore(path, pats)

(***************************************************************************)
(* _create_file_tree: a node is [name, path, type, children]; a node of    *)
(* type "file" has no 'children' key, modelled by an empty children list   *)
(* that nothing is ever added to.                                          *)
(***************************************************************************)
\* The index of the node of the level named part, 0 when there is none.
FindNode(level, part) ==
    IF \E k \in 1..Len(level) : level[k].name = part
    THEN CHOOSE k \in 1..Len(level) :
            level[k].name = part /\ \A j \in 1..(k - 1) : level[j].name # part
    ELSE 0

\* The inner loop, from the i-th part on: the level with the path's remaining
\* parts inserted below it.
RECURSIVE InsertParts(_, _, _, _, _)
InsertParts(level, parts, i, current_path, path) ==
    IF i > Len(parts) THEN level
    ELSE IF parts[i] = << >> THEN InsertParts(level, parts, i + 1, current_path, path)
    ELSE LET part == parts[i]
             cp == IF current_path # << >>
                   THEN current_path \o << "/" >> \o part ELSE part
             is_directory == i < Len(parts) \/ EndsWith(path, << "/" >>)
             k == FindNode(level, part)
         IN IF k # 0
            THEN IF level[k].type = "directory"
                 THEN [level EXCEPT ![k].children =
                          InsertParts(@, parts, i + 1, cp, path)]
                 \* an existing file node: the rest goes to a list nobody keeps
                 ELSE level
            ELSE Append(level,
                        [name |-> part,
                         path |-> cp,
                         type |-> IF is_directory THEN "directory" ELSE "file",
                         children |-> IF is_directory
                                      THEN InsertParts(<< >>, parts, i + 1, cp, path)
                                      ELSE << >>])

RECURSIVE InsertPaths(_, _)
InsertPaths(root, sorted_paths) ==
    IF sorted_paths = << >> THEN root
    ELSE InsertPaths(InsertParts(root, Split(Head(sorted_paths), "/"), 1, << >>,
                                 Head(sorted_paths)),
                     Tail(sorted_paths))

CreateFileTree(sorted_paths) == InsertPaths(<< >>, sorted_paths)

(***************************************************************************)
(* _print_tree                                                             *)
(***************************************************************************)
Indent == << " ", " " >>
Marker == << "-", " " >>

\* A variant of NodeLine that indents by the prefix twice.
NodeLineWide(node, prefix) ==
    prefix \o prefix \o Marker \o node.name
        \o (IF node.type = "directory" THEN << "/" >> ELSE << >>)

\* The line of a node.
NodeLine(node, prefix) ==
    prefix \o Marker \o node.name
        \o (IF node.type = "directory" THEN << "/" >> ELSE << >>)

RECURSIVE PrintNodes(_, _)
PrintNodes(nodes, prefix) ==
    IF nodes = << >> THEN << >>
    ELSE LET node == Head(nodes)
         IN << NodeLine(node, prefix) >>
            \o (IF node.children # << >>
                THEN PrintNodes(node.children, prefix \o Indent) ELSE << >>)
            \o PrintNodes(Tail(nodes), prefix)

\* The call at level 0: the root line, then the nodes with prefix "  ".
PrintTree(nodes, root_path) ==
    << Marker \o RStrip(root_path, "/") \o << "/" >> >> \o PrintNodes(nodes, Indent)

(***************************************************************************)
(* forward                                                                 *)
(***************************************************************************)
TRUNCATED_MESSAGE == "There are more than MAX_FILES files in the repository. ..."

NoResult == [error |-> "none", path |-> << >>, prefix |-> "", tree_output |-> << >>]
ErrorResult(what, path) ==
    [error |-> what, path |-> path, prefix |-> "", tree_output |-> << >>]

\* truncated = len(all_paths) >= MAX_FILES
Truncated(paths) == Len(paths) >= MAX_FILES

\* The lines after the existence and directory checks.
Render(paths, nodes, path) ==
    [error |-> "",
     path |-> path,
     prefix |-> IF Truncated(paths) THEN TRUNCATED_MESSAGE ELSE "",
     tree_output |-> PrintTree(nodes, path)]

\* The path forward works on.
ResolvePath(path) == IF ~IsAbs(path) THEN AbsPath(path) ELSE path

\* A variant of CheckPath that tests for a directory first.
CheckPathDirectoryFirst(path) ==
    IF ~IsDir(path) THEN "is not a directory"
    ELSE IF ~Exists(path) THEN "does not exist"
    ELSE ""

\* The checks of forward: the error it returns, "" when it goes on.
CheckPath(path) ==
    IF ~Exists(path) THEN "does not exist"
    ELSE IF ~IsDir(path) THEN "is not a directory"
    ELSE ""

Init ==
    /\ \E t \in TreesUpTo(MaxEntries) :
          /\ dirs = t.dirs
          /\ files = t.files
    /\ fault = NoFault
    /\ pc = "idle"
    /\ calls = 0
    /\ initial_path = << >>
    /\ ignore_patterns = << >>
    /\ queue = << >>
    /\ results = << >>
    /\ file_count = 0
    /\ listed = {}
    /\ all_paths = << >>
    /\ tree = << >>
    /\ result = NoResult
    /\ prev = NoResult

\* A call of forward(arg, ignore), up to the first test of the loop.  A
\* behaviour repeats the arguments of its first call.
Forward(arg, ignore) ==
    LET path == ResolvePath(arg)
        error == CheckPath(path)
    IN /\ pc \in { "idle", "done", "raised" }
       /\ calls < MaxCalls
       /\ calls > 0 => path = initial_path /\ ignore = ignore_patterns
       /\ calls' = calls + 1
       /\ initial_path' = path
       /\ ignore_patterns' = ignore
       /\ prev' = result
       /\ results' = << >>
       /\ file_count' = 0
       /\ listed' = {}
       /\ all_paths' = << >>
       /\ tree' = << >>
       /\ IF error # ""
          THEN /\ pc' = "done"
               /\ queue' = << >>
               /\ result' = ErrorResult(error, path)
          ELSE /\ pc' = "scan"
               /\ queue' = << path >>
               /\ result' = NoResult
       /\ UNCHANGED << dirs, files, fault >>

(***************************************************************************)
(* _list_directory: one action per way through the loop body.              *)
(***************************************************************************)
\* A variant of LoopGoesOn that tests file_count <= MAX_FILES.
LoopGoesOnOneMore == queue # << >> /\ file_count <= MAX_FILES

\* while queue and file_count < MAX_FILES
LoopGoesOn == queue # << >> /\ file_count < MAX_FILES

\* queue.pop(0)
Front(q) == Head(q)
Rest(q) == Tail(q)

\* The entry recorded for a path.
RelEntry(path, root) ==
    LET rel_path == RelPath(path, root)
    IN IF IsDir(path) /\ ~EndsWith(rel_path, << "/" >>)
       THEN rel_path \o << "/" >> ELSE rel_path

\* A variant of Counted that counts directories as well.
CountedEveryEntry(path) ==
    IF path # initial_path THEN file_count + 1 ELSE file_count

\* results and file_count after the path is recorded.
Recorded(path) ==
    IF path # initial_path THEN Append(results, RelEntry(path, initial_path))
    ELSE results
Counted(path) ==
    IF path # initial_path /\ ~IsDir(path) THEN file_count + 1 ELSE file_count

\* A variant of SortEntries that keeps os.listdir's order.
SortEntriesLeftOut(entries) == entries

\* entries.sort()
SortEntries(entries) == SortStrings(entries)

\* The entries that pass the filter, in order.
RECURSIVE KeepNotSkipped(_, _)
KeepNotSkipped(entries, pats) ==
    IF entries = << >> THEN << >>
    ELSE IF ShouldSkip(Head(entries), pats) THEN KeepNotSkipped(Tail(entries), pats)
    ELSE << Head(entries) >> \o KeepNotSkipped(Tail(entries), pats)

\* The children a directory adds to the queue, os.listdir answering in order.
Children(path, order) ==
    KeepNotSkipped(SortEntries([i \in 1..Len(order) |-> PathJoin(path, order[i])]),
                   ignore_patterns)

\* os.listdir(path) raises err.  At most one directory fails: it is met
\* during the first call, and fails in the same way from then on.
ListDirRaises(path, err) ==
    IF fault = NoFault THEN calls = 1 ELSE fault = [dir |-> path, err |-> err]

\* The dequeued path is filtered: continue.
SkipPath ==
    /\ pc = "scan" /\ LoopGoesOn
    /\ ShouldSkip(Front(queue), ignore_patterns)
    /\ queue' = Rest(queue)
    /\ UNCHANGED << dirs, files, fault, pc, calls, initial_path, ignore_patterns,
                    results, file_count, listed, all_paths, tree, result, prev >>

\* The dequeued path is not a directory: it is recorded and counted.
RecordFile ==
    LET path == Front(queue)
    IN /\ pc = "scan" /\ LoopGoesOn
       /\ ~ShouldSkip(path, ignore_patterns)
       /\ ~IsDir(path)
       /\ queue' = Rest(queue)
       /\ results' = Recorded(path)
       /\ file_count' = Counted(path)
       /\ UNCHANGED << dirs, files, fault, pc, calls, initial_path, ignore_patterns,
                       listed, all_paths, tree, result, prev >>

\* The dequeued path is a directory and os.listdir answers, in some order.
ExpandDirectory ==
    LET path == Front(queue)
    IN /\ pc = "scan" /\ LoopGoesOn
       /\ ~ShouldSkip(path, ignore_patterns)
       /\ IsDir(path)
       /\ fault.dir # path
       /\ \E order \in Orders(ListDirNames(path)) :
             queue' = Rest(queue) \o Children(path, order)
       /\ results' = Recorded(path)
       /\ file_count' = Counted(path)
       /\ listed' = listed \cup { path }
       /\ UNCHANGED << dirs, files, fault, pc, calls, initial_path, ignore_patterns,
                       all_paths, tree, result, prev >>

\* os.listdir raises PermissionError or FileNotFoundError: continue.
ListingAbsorbed ==
    LET path == Front(queue)
    IN /\ pc = "scan" /\ LoopGoesOn
       /\ ~ShouldSkip(path, ignore_patterns)
       /\ IsDir(path)
       /\ \E err \in CaughtErrors :
             /\ ListDirRaises(path, err)
             /\ fault' = [dir |-> path, err |-> err]
       /\ queue' = Rest(queue)
       /\ results' = Recorded(path)
       /\ file_count' = Counted(path)
       /\ listed' = listed \cup { path }
       /\ UNCHANGED << dirs, files, pc, calls, initial_path, ignore_patterns,
                       all_paths, tree, result, prev >>

\* os.listdir raises an error the except clause does not name: it leaves
\* _list_directory and forward.
ListingRaises ==
    LET path == Front(queue)
    IN /\ pc = "scan" /\ LoopGoesOn
       /\ ~ShouldSkip(path, ignore_patterns)
       /\ IsDir(path)
       /\ \E err \in ListErrors \ CaughtErrors :
             /\ ListDirRaises(path, err)
             /\ fault' = [dir |-> path, err |-> err]
       /\ pc' = "raised"
       /\ queue' = Rest(queue)
       /\ results' = Recorded(path)
       /\ file_count' = Counted(path)
       /\ listed' = listed \cup { path }
       /\ UNCHANGED << dirs, files, calls, initial_path, ignore_patterns,
                       all_paths, tree, result, prev >>

\* The loop ends: results.sort(), return, and the rest of forward.
Return ==
    /\ pc = "scan" /\ ~LoopGoesOn
    /\ pc' = "done"
    /\ all_paths' = SortStrings(results)
    /\ tree' = CreateFileTree(all_paths')
    /\ result' = Render(all_paths', tree', initial_path)
    /\ UNCHANGED << dirs, files, fault, calls, initial_path, ignore_patterns, queue,
                    results, file_count, listed, prev >>

Next ==
    \/ \E arg \in PathArgs, ignore \in IgnoreLists : Forward(arg, ignore)
    \/ SkipPath
    \/ RecordFile
    \/ ExpandDirectory
    \/ ListingAbsorbed
    \/ ListingRaises
    \/ Return

Spec == Init /\ [][Next]_vars

\* The same program on the second filesystem, called on its path arguments.
SegmentInit ==
    /\ \E t \in TreesOver(SegmentUniverse, MaxEntries) :
          /\ dirs = t.dirs
          /\ files = t.files
    /\ fault = NoFault
    /\ pc = "idle"
    /\ calls = 0
    /\ initial_path = << >>
    /\ ignore_patterns = << >>
    /\ queue = << >>
    /\ results = << >>
    /\ file_count = 0
    /\ listed = {}
    /\ all_paths = << >>
    /\ tree = << >>
    /\ result = NoResult
    /\ prev = NoResult

SegmentNext ==
    \/ \E arg \in RootArgs, ignore \in IgnoreLists : Forward(arg, ignore)
    \/ SkipPath
    \/ RecordFile
    \/ ExpandDirectory
    \/ ListingAbsorbed
    \/ ListingRaises
    \/ Return

SegmentSpec == SegmentInit /\ [][SegmentNext]_vars

(***************************************************************************)
(* The vocabulary of the properties, stated on the filesystem and not on   *)
(* the scan.                                                               *)
(***************************************************************************)
\* The entries of the filesystem strictly below the root of the call.
Below(root) ==
    { p \in dirs \cup files : p # root /\ StartsWith(p, PathJoin(root, << >>)) }

\* The path itself and its ancestors strictly below the root.
RECURSIVE Lineage(_, _)
Lineage(p, root) ==
    IF p = root \/ ~StartsWith(p, PathJoin(root, << >>)) THEN {}
    ELSE { p } \cup Lineage(Dirname(p), root)

\* The number of directories between the root and the path, the path counted.
Depth(p, root) == Cardinality(Lineage(p, root))

\* The entry's text in the listing: its path after the root's, "/" appended
\* to a directory.
EntryOf(p, root) ==
    SubSeq(p, Len(PathJoin(root, << >>)) + 1, Len(p))
        \o (IF p \in dirs THEN << "/" >> ELSE << >>)

\* Not skipped, and below no skipped directory other than the root.
Visible(p) ==
    /\ p \in Below(initial_path)
    /\ \A a \in Lineage(p, initial_path) : ~ShouldSkip(a, ignore_patterns)

\* The directory whose listing has failed.
Unlistable(d) == fault.dir = d /\ fault.err # "none"

\* Visible, the root not skipped, and every directory above it listable.
Reachable(p) ==
    /\ Visible(p)
    /\ ~ShouldSkip(initial_path, ignore_patterns)
    /\ \A a \in (Lineage(p, initial_path) \cup { initial_path }) \ { p } :
          ~Unlistable(a)

VisibleEntries == { p \in dirs \cup files : Visible(p) }
VisibleFiles == VisibleEntries \cap files
ReachableEntries == { p \in dirs \cup files : Reachable(p) }
ReachableFiles == ReachableEntries \cap files

\* forward has returned a listing.
Listed == pc = "done" /\ result.error = ""

\* The entries of the returned list that are files.
FileEntries == { i \in 1..Len(all_paths) : ~EndsWith(all_paths[i], << "/" >>) }

\* The nodes of a forest, at every depth.
RECURSIVE Nodes(_)
Nodes(level) ==
    UNION { { level[i] } \cup Nodes(level[i].children) : i \in 1..Len(level) }

\* The levels of a forest: the forest and every node's children.
Levels(forest) == { forest } \cup { n.children : n \in Nodes(forest) }

(***************************************************************************)
(* The properties.                                                         *)
(***************************************************************************)
\* C1: the banner is prepended iff the file counter reached MAX_FILES;
\* directory entries do not count, so a tree with fewer than MAX_FILES
\* non-skipped files gets no banner.
C1_BannerIffFileCapReached ==
    Listed =>
        /\ (result.prefix = TRUNCATED_MESSAGE) <=> (file_count >= MAX_FILES)
        /\ Cardinality(VisibleFiles) < MAX_FILES => result.prefix = ""

\* C2, as stated: with fewer than MAX_FILES non-skipped files, the returned
\* list holds each non-skipped entry with no skipped ancestor below the root
\* exactly once, and nothing else.
C2_ListsEveryVisibleEntry ==
    (Listed /\ Cardinality(VisibleFiles) < MAX_FILES) =>
        /\ Range(all_paths) = { EntryOf(p, initial_path) : p \in VisibleEntries }
        /\ Len(all_paths) = Cardinality(VisibleEntries)
        /\ Cardinality(FileEntries) = Cardinality(VisibleFiles)

\* C2, amended: the same, when the root itself is not skipped and every
\* non-skipped directory can be listed.
C2_ListsEveryVisibleEntryOfListableTree ==
    (/\ Listed
     /\ Cardinality(VisibleFiles) < MAX_FILES
     /\ ~ShouldSkip(initial_path, ignore_patterns)
     /\ \A d \in (VisibleEntries \cap dirs) \cup { initial_path } : ~Unlistable(d)) =>
        /\ Range(all_paths) = { EntryOf(p, initial_path) : p \in VisibleEntries }
        /\ Len(all_paths) = Cardinality(VisibleEntries)
        /\ Cardinality(FileEntries) = Cardinality(VisibleFiles)

\* A listing of a tree with a directory, a file in it and a skipped entry.
C2_Witness ==
    /\ Listed
    /\ Cardinality(VisibleFiles) < MAX_FILES
    /\ ~ShouldSkip(initial_path, ignore_patterns)
    /\ fault.err = "none"
    /\ \E f \in VisibleFiles : Depth(f, initial_path) = 2
    /\ VisibleEntries # Below(initial_path)
    /\ Len(all_paths) >= 3

\* p is dequeued before q by a breadth-first scan with sorted children.
RECURSIVE BfsBefore(_, _, _)
BfsBefore(p, q, root) ==
    IF Depth(p, root) # Depth(q, root) THEN Depth(p, root) < Depth(q, root)
    ELSE IF p = q \/ Depth(p, root) = 0 THEN FALSE
    ELSE IF Dirname(p) = Dirname(q) THEN StrLess(p, q)
    ELSE BfsBefore(Dirname(p), Dirname(q), root)

\* The files the returned list shows.
ShownFiles ==
    { f \in ReachableFiles : EntryOf(f, initial_path) \in Range(all_paths) }

\* C3: the file counter never exceeds MAX_FILES; with more than MAX_FILES
\* files reachable, the list holds exactly MAX_FILES file entries, and they
\* are the first MAX_FILES files in breadth-first order.
C3_FirstFilesInBfsOrder ==
    /\ file_count <= MAX_FILES
    /\ (Listed /\ Cardinality(ReachableFiles) > MAX_FILES) =>
          /\ Cardinality(FileEntries) = MAX_FILES
          /\ Cardinality(ShownFiles) = MAX_FILES
          /\ \A f \in ShownFiles : \A g \in ReachableFiles :
                BfsBefore(g, f, initial_path) => g \in ShownFiles

\* A truncated listing that leaves a deeper file out and shows a file that
\* sorts after it.
C3_Witness ==
    /\ Listed
    /\ Cardinality(ReachableFiles) > MAX_FILES
    /\ queue # << >>
    /\ \E g \in ReachableFiles \ ShownFiles : \E f \in ShownFiles :
          Depth(g, initial_path) = 2 /\ StrLess(g, f)

\* The path, or a directory above it below the root, has a hidden name.
HiddenOrUnderHidden(p, root) ==
    \E a \in Lineage(p, root) :
        Basename(a) # << "." >> /\ StartsWith(Basename(a), << "." >>)

\* The relative path has a hidden segment.
HasHiddenSegment(rel) ==
    \E i \in 1..Len(Split(rel, "/")) :
        LET seg == Split(rel, "/")[i]
        IN seg # << "." >> /\ StartsWith(seg, << "." >>)

\* C4: no hidden entry and no entry beneath a hidden directory is in the
\* returned list, in the tree or in the rendered lines, whatever the ignore
\* list.
C4_HiddenEntriesAbsent ==
    pc = "done" =>
        /\ \A p \in Below(initial_path) :
              HiddenOrUnderHidden(p, initial_path) =>
                 /\ EntryOf(p, initial_path) \notin Range(all_paths)
                 /\ \A n \in Nodes(tree) :
                       n.path # RStrip(EntryOf(p, initial_path), "/")
        /\ \A i \in 1..Len(all_paths) : ~HasHiddenSegment(all_paths[i])
        /\ \A i \in 2..Len(result.tree_output) :
              ~Contains(Marker \o << "." >>, result.tree_output[i])

\* A listing of a root that holds a hidden directory with an entry in it that
\* no other rule skips, next to a listed entry.
C4_Witness ==
    /\ Listed
    /\ all_paths # << >>
    /\ \E p \in Below(initial_path) :
          /\ Depth(p, initial_path) = 2
          /\ HiddenOrUnderHidden(p, initial_path)
          /\ ~IsHidden(Basename(p))
          /\ ~MatchesIgnore(p, ignore_patterns)

\* The path, or a directory above it below the root, matches an ignore
\* pattern.
IgnoredOrUnderIgnored(p, root, pats) ==
    \E a \in Lineage(p, root) : \E i \in 1..Len(pats) : FnMatch(a, pats[i])

\* C5: an entry whose path matches an ignore pattern, and every entry of its
\* subtree, is absent from the returned list, the tree and the output.
C5_IgnoredSubtreesAbsent ==
    pc = "done" =>
        \A p \in Below(initial_path) :
            IgnoredOrUnderIgnored(p, initial_path, ignore_patterns) =>
               /\ EntryOf(p, initial_path) \notin Range(all_paths)
               /\ \A n \in Nodes(tree) :
                     n.path # RStrip(EntryOf(p, initial_path), "/")

\* A listing with an ignored directory whose entry matches no pattern itself
\* and is otherwise not skipped.
C5_Witness ==
    /\ Listed
    /\ all_paths # << >>
    /\ \E p \in Below(initial_path) :
          /\ Depth(p, initial_path) = 2
          /\ IgnoredOrUnderIgnored(p, initial_path, ignore_patterns)
          /\ ~ShouldSkip(p, ignore_patterns)

\* C6: at every level of the tree the names are pairwise distinct and in
\* ascending order.
C6_ChildrenSortedByName ==
    pc = "done" =>
        \A level \in Levels(tree) :
            \A i \in 1..Len(level) : \A j \in 1..Len(level) :
                i < j => StrLess(level[i].name, level[j].name)

\* The line of an entry of the list: two spaces per segment, the marker, the
\* last segment, "/" for a directory.
RECURSIVE Spaces(_)
Spaces(n) == IF n = 0 THEN << >> ELSE << " " >> \o Spaces(n - 1)

LineOf(entry) ==
    LET segs == Split(RStrip(entry, "/"), "/")
    IN Spaces(2 * Len(segs)) \o << "-", " " >> \o segs[Len(segs)]
          \o (IF EndsWith(entry, << "/" >>) THEN << "/" >> ELSE << >>)

\* The entry of the directory an entry lies in, "" at the top.
ParentEntry(entry) ==
    LET segs == Split(RStrip(entry, "/"), "/")
    IN IF Len(segs) = 1 THEN << >>
       ELSE JoinWith(SubSeq(segs, 1, Len(segs) - 1), "/") \o << "/" >>

\* C7: the returned list is strictly ascending, and the lines after the root
\* line are the entries' lines, one per entry, in the list's order; a child
\* comes after its parent directory.
C7_OutputIsTheListLineByLine ==
    Listed =>
        /\ \A i \in 1..Len(all_paths) : \A j \in 1..Len(all_paths) :
              i < j => StrLess(all_paths[i], all_paths[j])
        /\ Len(result.tree_output) = Len(all_paths) + 1
        /\ \A i \in 1..Len(all_paths) :
              /\ result.tree_output[i + 1] = LineOf(all_paths[i])
              /\ ParentEntry(all_paths[i]) # << >> =>
                    \E j \in 1..(i - 1) : all_paths[j] = ParentEntry(all_paths[i])

\* A listing with a directory, an entry in it, and an entry after it whose
\* name continues the directory's.
C7_Witness ==
    /\ Listed
    /\ \E i \in 1..Len(all_paths) : \E j \in 1..Len(all_paths) :
          /\ EndsWith(all_paths[i], << "/" >>)
          /\ ParentEntry(all_paths[j]) = all_paths[i]
    /\ \E i \in 1..Len(all_paths) : ~EndsWith(all_paths[i], << "/" >>)
    /\ Len(all_paths) >= 3

\* C8: on a path that does not exist forward returns the "does not exist"
\* error naming it, on a path that is not a directory the "is not a
\* directory" error; nothing is queued or listed and nothing is rendered.
C8_ErrorsBeforeAnyTraversal ==
    (calls > 0 /\ ~IsDir(initial_path)) =>
        /\ pc = "done"
        /\ result = [error |-> IF Exists(initial_path) THEN "is not a directory"
                               ELSE "does not exist",
                     path |-> initial_path,
                     prefix |-> "",
                     tree_output |-> << >>]
        /\ queue = << >> /\ listed = {} /\ results = << >>
        /\ all_paths = << >> /\ tree = << >>

\* forward has returned the "does not exist" error.
C8_Witness ==
    /\ pc = "done"
    /\ ~Exists(initial_path)
    /\ result.error = "does not exist"

\* C9: on an unchanged tree two invocations with the same arguments return
\* the same output, whatever order os.listdir answers in, truncated or not.
C9_SameOutputOnEveryInvocation ==
    (/\ pc = "done"
     /\ calls >= 2
     /\ prev.error # "none"
     /\ fault.err \in { "none", "PermissionError" }) =>
        result = prev

\* The second of two truncated listings of a directory of three entries or
\* more.
C9_Witness ==
    /\ Listed
    /\ calls = 2
    /\ prev = result
    /\ result.prefix = TRUNCATED_MESSAGE
    /\ Cardinality(ReachableFiles) > MAX_FILES
    /\ Cardinality(ListDirNames(initial_path)) >= 3

\* C10: a failure to list a directory never makes the call fail; the
\* directory yields no children and every other reachable entry is listed.
C10_ListingFailuresAbsorbed ==
    /\ pc # "raised"
    /\ (Listed /\ Cardinality(VisibleFiles) < MAX_FILES) =>
          { EntryOf(p, initial_path) : p \in ReachableEntries }
             \subseteq Range(all_paths)

\* One of the segments of the path, as it is written, is the bytecode-cache
\* name.
HasPycacheSegment(path) == PycacheName \in Range(Split(path, "/"))

\* The skip predicate with its bytecode-cache rule read by segments.
SkipBySegments(path, pats) ==
    LET basename == Basename(RStrip(path, "/"))
    IN \/ IsHidden(basename)
       \/ basename = PycacheName \/ HasPycacheSegment(path)
       \/ MatchesIgnore(path, pats)

\* C11: the bytecode-cache rule skips a path only if its base name or one of
\* its segments is '__pycache__': in a listing that is complete, an entry is
\* present when neither it nor a directory above it is hidden, ignored, or
\* has '__pycache__' for base name or segment, a file under a directory
\* named 'my__pycache__' among them.
C11_PycacheRuleBySegments ==
    (/\ Listed
     /\ file_count < MAX_FILES
     /\ fault = NoFault
     /\ ~SkipBySegments(initial_path, ignore_patterns)) =>
        \A p \in Below(initial_path) :
            (\A a \in Lineage(p, initial_path) :
                ~SkipBySegments(a, ignore_patterns))
                => EntryOf(p, initial_path) \in Range(all_paths)

\* The base name of the root of the call.
RootBasename == Basename(RStrip(initial_path, "/"))

\* The children of the root, and those the skip predicate lets through.
ChildPaths == { PathJoin(initial_path, n) : n \in ListDirNames(initial_path) }
KeptChildren == { c \in ChildPaths : ~ShouldSkip(c, ignore_patterns) }

\* The path has been put in the queue: it is still there, or it has been
\* taken out and recorded.
Traversed(c) ==
    \/ c \in Range(queue)
    \/ RelEntry(c, initial_path) \in Range(results)

\* The root is held back: nothing is put in the queue, no directory is
\* listed, and forward returns the root line alone.
RootHeldBack ==
    /\ pc \in { "scan", "done" }
    /\ queue \in { << >>, << initial_path >> }
    /\ results = << >> /\ listed = {} /\ file_count = 0
    /\ pc = "done" =>
          /\ all_paths = << >>
          /\ result = [error |-> "",
                       path |-> initial_path,
                       prefix |-> "",
                       tree_output |->
                           << << "-", " " >> \o RStrip(initial_path, "/")
                                 \o << "/" >> >>]

\* The root is gone through: it is not recorded as an entry, and once
\* os.listdir has answered on it, its children that the skip predicate lets
\* through have been put in the queue.
RootGoneThrough ==
    /\ RelEntry(initial_path, initial_path) \notin Range(results) \cup Range(all_paths)
    /\ ((pc = "done" \/ initial_path \in listed) /\ ~Unlistable(initial_path)) =>
          \A c \in KeptChildren : Traversed(c)

\* C12: when the root is an existing directory whose base name starts with
\* '.', or is '__pycache__', or whose path matches an ignore pattern, nothing
\* is put in the queue and forward returns the root line alone, whatever the
\* root holds; otherwise the root is not recorded and its non-skipped children
\* are put in the queue.
C12_RootIsFiltered ==
    (calls > 0 /\ IsDir(initial_path)) =>
        IF \/ StartsWith(RootBasename, << "." >>)
           \/ RootBasename = PycacheName
           \/ \E i \in 1..Len(ignore_patterns) :
                 FnMatch(initial_path, ignore_patterns[i])
        THEN RootHeldBack
        ELSE RootGoneThrough

\* C12, amended: the same, the base name '.' (a root path that ends with
\* "/.") not counting as one that starts with '.'.
C12_RootIsFilteredButDot ==
    (calls > 0 /\ IsDir(initial_path)) =>
        IF \/ (StartsWith(RootBasename, << "." >>) /\ RootBasename # << "." >>)
           \/ RootBasename = PycacheName
           \/ \E i \in 1..Len(ignore_patterns) :
                 FnMatch(initial_path, ignore_patterns[i])
        THEN RootHeldBack
        ELSE RootGoneThrough

\* forward has returned the root line alone on a hidden root directory that
\* holds an entry the skip predicate lets through.
C12_Witness ==
    /\ Listed
    /\ RootBasename = HiddenName
    /\ KeptChildren # {}
    /\ all_paths = << >>
    /\ Len(result.tree_output) = 1

=============================================================================
